---- MODULE Spec2Model ----
(***************************************************************************)
(* context-raii: the task-chunk ownership store (tasks, context_chunks,   *)
(* task_chunks, reference_edges, task_dependencies), the TaskRegistry,     *)
(* ContextTagger, ReferenceGraph and EvictionEngine operations over it,    *)
(* and the pre-tool / post-tool hooks that drive them.                     *)
(*                                                                         *)
(* Each registry / tagger / graph method is an operator from a store       *)
(* value s (a record of the five tables and the clock) to the store after  *)
(* the call; an action applies one public call or one hook process to the  *)
(* current store and commits the result.                                   *)
(***************************************************************************)
EXTENDS Integers, Sequences, FiniteSets, TLC

\* ---------------------------------------------------------------- bounds
MaxTasks == 2        \* task ids 1..MaxTasks
MaxChunks == 2       \* invocation ids (= chunk ids) 1..MaxChunks
MaxPaths == 2        \* file paths 1..MaxPaths
MaxDeps == 1         \* dependency edges in the store
MaxRefEdges == 1     \* reference edges in the store
MaxOutput == 8       \* characters of the longest tool output
StaleThreshold == 2  \* threshold the engine passes to abandon_stale_tasks
                     \* (50 in eviction_engine.py), scaled to the chunk bound

TaskIds == 1..MaxTasks
ChunkIds == 1..MaxChunks
Paths == 1..MaxPaths

NULL == 0            \* Python None / SQL NULL / absent key

\* ---------------------------------------------------------------- storage
\* tasks:             table tasks, id -> [status, created_at, completed_at]
\* context_chunks:    table context_chunks, id -> [tool_name, tool_input, status, created_at]
\* task_chunks:       table task_chunks, set of <<task_id, chunk_id>>
\* reference_edges:   set of <<source_task_id, target_chunk_id, reference_type>>
\* task_dependencies: set of <<dependent_task_id, dependency_task_id>>
\* now:               the created_at clock: a row inserted into tasks or
\*                    context_chunks is stamped with the next instant, so
\*                    created_at orders the rows by insertion
\* pending_tag:       pending_tag.json, NoTag or [tool_use_id, active_task_id]
\* pre_active:        history of the tags written, for the invocation ids in its domain:
\*                    invocation id -> [ran, tool_name, tool_input,
\*                    created (task ids), active_task_id] of its latest pre-tool hook
\* result:            what the most recent call returned, printed or logged
VARIABLES tasks, context_chunks, task_chunks, reference_edges, task_dependencies, now, pending_tag, pre_active, result

vars == <<tasks, context_chunks, task_chunks, reference_edges,
          task_dependencies, now, pending_tag, pre_active, result>>

TaskStatuses == {"pending", "in_progress", "completed", "abandoned"}
ChunkStatuses == {"fresh", "integrated", "evictable"}

REFERENCE_TYPES == {"cited_in_reasoning", "builds_on", "supersedes", "required_by"}
REFETCHABLE_TOOLS == {"Read", "Glob", "Grep", "WebFetch", "WebSearch"}
WORK_TOOLS == {"Edit", "Write", "Bash", "MultiEdit"}
FILE_MUTATORS == {"Edit", "Write", "MultiEdit"}

\* reference types callers pass: a valid one and one outside REFERENCE_TYPES
EdgeTypes == {"cited_in_reasoning", "bogus"}

\* The store as one value, so that the methods compose.
Store == [tasks |-> tasks, context_chunks |-> context_chunks,
          task_chunks |-> task_chunks, reference_edges |-> reference_edges,
          task_dependencies |-> task_dependencies, now |-> now, ok |-> TRUE]

\* ------------------------------------------------------------ task_registry
\* datetime.now(timezone.utc).isoformat() as a completed_at stamp: the code
\* only ever tests completed_at for None, so the stamp keeps no instant.
STAMPED == 1

_now(s) == STAMPED

is_active(t) == t.status \in {"pending", "in_progress"}

is_complete(t) == t.status = "completed"

\* INSERT ... ON CONFLICT(id) DO UPDATE SET subject, status, parent_id,
\* completed_at, metadata: created_at of an existing row is kept.
upsert(s, id, task) ==
  IF id \in DOMAIN s.tasks
    THEN [s EXCEPT !.tasks[id].status = task.status,
                   !.tasks[id].completed_at = task.completed_at]
    ELSE [s EXCEPT !.tasks = (id :> task) @@ s.tasks,
                   !.now = task.created_at]

create(s, id) ==
  upsert(s, id, [status |-> "pending", created_at |-> s.now + 1, completed_at |-> NULL])

\* mutant: an id that is not in the store is inserted with the status
update_status_inserts_unknown(s, id, status) ==
  LET task == IF id \in DOMAIN s.tasks THEN s.tasks[id]
              ELSE [status |-> status, created_at |-> s.now + 1, completed_at |-> NULL]
      stamp == status = "completed" /\ task.completed_at = NULL
  IN  upsert(s, id, [task EXCEPT !.status = status,
                                 !.completed_at = IF stamp THEN _now(s) ELSE @])

update_status(s, id, status) ==
  IF id \notin DOMAIN s.tasks THEN s
  ELSE LET task == s.tasks[id]
           stamp == status = "completed" /\ task.completed_at = NULL
           t2 == [task EXCEPT !.status = status,
                              !.completed_at = IF stamp THEN _now(s) ELSE @]
       IN  upsert(s, id, t2)

\* mutant: foreign keys not enforced
tag_chunk_unchecked(s, task_id, chunk_id) ==
  [s EXCEPT !.task_chunks = @ \cup {<<task_id, chunk_id>>}]

\* INSERT OR IGNORE with both foreign keys enforced: a missing endpoint
\* raises (and rolls back), an existing edge is left alone.
tag_chunk(s, task_id, chunk_id) ==
  IF task_id \in DOMAIN s.tasks /\ chunk_id \in DOMAIN s.context_chunks
    THEN [s EXCEPT !.task_chunks = @ \cup {<<task_id, chunk_id>>}]
    ELSE [s EXCEPT !.ok = FALSE]

add_dependency(s, dependent, dependency) ==
  IF dependent \in DOMAIN s.tasks /\ dependency \in DOMAIN s.tasks
    THEN [s EXCEPT !.task_dependencies = @ \cup {<<dependent, dependency>>}]
    ELSE [s EXCEPT !.ok = FALSE]

\* mutant: dependents are followed transitively
has_active_dependents_transitive(s, task_id) ==
  LET Dependents(S) == {d[1] : d \in {e \in s.task_dependencies : e[2] \in S}}
      RECURSIVE Up(_, _)
      Up(S, n) == IF n = 0 THEN S ELSE Up(S \cup Dependents(S), n - 1)
  IN  \E t \in Up(Dependents({task_id}), Cardinality(DOMAIN s.tasks)) :
         t \in DOMAIN s.tasks /\ is_active(s.tasks[t])

has_active_dependents(s, task_id) ==
  \E d \in s.task_dependencies :
     d[2] = task_id /\ d[1] \in DOMAIN s.tasks /\ is_active(s.tasks[d[1]])

\* mutant: pending tasks count as active too
InProgress_or_pending(s) == {t \in DOMAIN s.tasks : is_active(s.tasks[t])}

InProgress(s) == {t \in DOMAIN s.tasks : s.tasks[t].status = "in_progress"}

\* mutant: ORDER BY created_at ASC, the oldest in_progress task
get_current_active_oldest(s) ==
  IF InProgress(s) = {} THEN NULL
  ELSE CHOOSE t \in InProgress(s) :
         \A u \in InProgress(s) : s.tasks[t].created_at <= s.tasks[u].created_at

\* ORDER BY created_at DESC LIMIT 1 over the in_progress rows.
get_current_active(s) ==
  IF InProgress(s) = {} THEN NULL
  ELSE CHOOSE t \in InProgress(s) :
         \A u \in InProgress(s) : s.tasks[u].created_at <= s.tasks[t].created_at

task_ids(s, chunk_id) == {e[1] : e \in {x \in s.task_chunks : x[2] = chunk_id}}

\* abandon_stale_tasks(threshold): every in_progress task with at least
\* threshold chunks created after it becomes abandoned.
ChunksAfter(s, t) ==
  Cardinality({c \in DOMAIN s.context_chunks :
                 s.context_chunks[c].created_at > s.tasks[t].created_at})

\* mutant: every unfinished task with enough later chunks, abandoned ones too
StaleTasks_any_unfinished(s, threshold) ==
  {t \in DOMAIN s.tasks :
     s.tasks[t].status \in {"in_progress", "abandoned"} /\ ChunksAfter(s, t) >= threshold}

StaleTasks(s, threshold) == {t \in InProgress(s) : ChunksAfter(s, t) >= threshold}

abandon_stale_tasks(s, threshold) ==
  LET stale == StaleTasks(s, threshold)
  IN  [s EXCEPT !.tasks = [t \in DOMAIN s.tasks |->
                             IF t \in stale
                               THEN [s.tasks[t] EXCEPT
                                       !.status = "abandoned",
                                       !.completed_at = IF @ = NULL THEN _now(s) ELSE @]
                               ELSE s.tasks[t]]]

\* ----------------------------------------------------------- context_tagger
\* A tool output is modelled by its length in characters.
Outputs == {3, MaxOutput}

ShortOutput == CHOOSE n \in Outputs : \A m \in Outputs : n <= m

_CHARS_PER_TOKEN == 4

\* max(1, len(text) // _CHARS_PER_TOKEN)
_estimate_tokens(text) ==
  IF text \div _CHARS_PER_TOKEN >= 1 THEN text \div _CHARS_PER_TOKEN ELSE 1

\* mutant: INSERT OR REPLACE, the whole row is written again
_persist_replace(s, chunk_id, chunk) ==
  [s EXCEPT !.context_chunks =
              (chunk_id :> chunk) @@ [c \in DOMAIN @ \ {chunk_id} |-> @[c]],
            !.now = chunk.created_at]

\* INSERT ... ON CONFLICT(id) DO UPDATE SET status, size_tokens, content_hash.
_persist(s, chunk_id, chunk) ==
  IF chunk_id \in DOMAIN s.context_chunks
    THEN [s EXCEPT !.context_chunks[chunk_id].status = chunk.status,
                   !.context_chunks[chunk_id].size_tokens = chunk.size_tokens]
    ELSE [s EXCEPT !.context_chunks = (chunk_id :> chunk) @@ s.context_chunks,
                   !.now = chunk.created_at]

ingest(s, tool_use_id, tool_name, tool_input, tool_output, task_id) ==
  LET active_task_id == IF task_id # NULL THEN task_id ELSE get_current_active(s)
      chunk == [tool_name |-> tool_name, tool_input |-> tool_input,
                status |-> "fresh", size_tokens |-> _estimate_tokens(tool_output),
                created_at |-> s.now + 1]
      s1 == _persist(s, tool_use_id, chunk)
  IN  IF active_task_id # NULL THEN tag_chunk(s1, active_task_id, tool_use_id) ELSE s1

\* column is_refetchable: int(tool_name in REFETCHABLE_TOOLS) of the ingest
\* that inserted the row, written together with tool_name and never updated
is_refetchable(s, chunk_id) == s.context_chunks[chunk_id].tool_name \in REFETCHABLE_TOOLS

mark_evictable(s, chunk_id) ==
  IF chunk_id \in DOMAIN s.context_chunks
    THEN [s EXCEPT !.context_chunks[chunk_id].status = "evictable"]
    ELSE s

mark_integrated(s, chunk_id) ==
  IF chunk_id \in DOMAIN s.context_chunks
    THEN [s EXCEPT !.context_chunks[chunk_id].status = "integrated"]
    ELSE s

\* mutant: every chunk of the path, whatever tool produced it
InvalidatedBy_any_tool(s, path) ==
  {c \in DOMAIN s.context_chunks :
     /\ s.context_chunks[c].tool_input.file_path = path
     /\ s.context_chunks[c].status # "evictable"}

\* invalidate_reads_for_path(path): the not-yet-evictable Read chunks of path.
InvalidatedBy(s, path) ==
  {c \in DOMAIN s.context_chunks :
     /\ s.context_chunks[c].tool_name = "Read"
     /\ s.context_chunks[c].tool_input.file_path = path
     /\ s.context_chunks[c].status # "evictable"}

invalidate_reads_for_path(s, path) ==
  [s EXCEPT !.context_chunks =
     [c \in DOMAIN s.context_chunks |->
        IF c \in InvalidatedBy(s, path)
          THEN [s.context_chunks[c] EXCEPT !.status = "evictable"]
          ELSE s.context_chunks[c]]]

\* ---------------------------------------------------------- reference_graph
\* mutant: one edge per (task, chunk) pair, a new type replaces the old one
add_edge_one_per_pair(s, task_id, chunk_id, reference_type) ==
  IF reference_type \notin REFERENCE_TYPES THEN [s EXCEPT !.ok = FALSE]
  ELSE IF task_id \in DOMAIN s.tasks /\ chunk_id \in DOMAIN s.context_chunks
    THEN [s EXCEPT !.reference_edges =
            {e \in @ : <<e[1], e[2]>> # <<task_id, chunk_id>>}
              \cup {<<task_id, chunk_id, reference_type>>}]
    ELSE [s EXCEPT !.ok = FALSE]

\* mutant: the reference type is not checked
add_edge_any_type(s, task_id, chunk_id, reference_type) ==
  IF task_id \in DOMAIN s.tasks /\ chunk_id \in DOMAIN s.context_chunks
    THEN [s EXCEPT !.reference_edges = @ \cup {<<task_id, chunk_id, reference_type>>}]
    ELSE [s EXCEPT !.ok = FALSE]

add_edge(s, task_id, chunk_id, reference_type) ==
  IF reference_type \notin REFERENCE_TYPES THEN [s EXCEPT !.ok = FALSE]
  ELSE IF task_id \in DOMAIN s.tasks /\ chunk_id \in DOMAIN s.context_chunks
    THEN [s EXCEPT !.reference_edges = @ \cup {<<task_id, chunk_id, reference_type>>}]
    ELSE [s EXCEPT !.ok = FALSE]

\* the exception add_edge raises: ValueError from the type check, before the
\* store is opened, or sqlite3.IntegrityError from a foreign key
NO_ERROR == "none"

add_edge_error(s, task_id, chunk_id, reference_type) ==
  IF reference_type \notin REFERENCE_TYPES THEN "ValueError"
  ELSE IF add_edge(s, task_id, chunk_id, reference_type).ok THEN NO_ERROR
  ELSE "IntegrityError"

remove_edge(s, task_id, chunk_id, reference_type) ==
  [s EXCEPT !.reference_edges = @ \ {<<task_id, chunk_id, reference_type>>}]

chunks_referenced_by_active_tasks(s) ==
  {e[2] : e \in {x \in s.reference_edges :
                   x[1] \in DOMAIN s.tasks /\ is_active(s.tasks[x[1]])}}

\* ---------------------------------------------------------- eviction_engine
KEEP_NONE == "none"  \* _why_keep returned None

\* mutant: only the chunks not yet evictable are listed
list_all_not_evicted(s) ==
  LET D == {c \in DOMAIN s.context_chunks : s.context_chunks[c].status # "evictable"}
  IN  [i \in 1..Cardinality(D) |->
         CHOOSE c \in D :
           Cardinality({d \in D : s.context_chunks[d].created_at
                                    < s.context_chunks[c].created_at}) = i - 1]

\* SELECT * FROM context_chunks ORDER BY created_at
list_all(s) ==
  LET D == DOMAIN s.context_chunks
  IN  [i \in 1..Cardinality(D) |->
         CHOOSE c \in D :
           Cardinality({d \in D : s.context_chunks[d].created_at
                                    < s.context_chunks[c].created_at}) = i - 1]

\* tool_name + "::" + json.dumps(tool_input, sort_keys=True)
_chunk_signature(chunk) == <<chunk.tool_name, chunk.tool_input>>

\* mutant: the first chunk of a signature wins instead of the latest
RECURSIVE _build_supersession_index_first_wins(_, _, _)
_build_supersession_index_first_wins(s, chunks, index) ==
  IF chunks = <<>> THEN index
  ELSE LET sig == _chunk_signature(s.context_chunks[Head(chunks)])
       IN  _build_supersession_index_first_wins(s, Tail(chunks), index @@ (sig :> Head(chunks)))

RECURSIVE _build_supersession_index(_, _, _)
_build_supersession_index(s, chunks, index) ==
  IF chunks = <<>> THEN index
  ELSE LET sig == _chunk_signature(s.context_chunks[Head(chunks)])
       IN  _build_supersession_index(s, Tail(chunks), (sig :> Head(chunks)) @@ index)

\* mutant: the orphan guard dropped
_all_owning_tasks_complete_no_orphan_guard(s, c) ==
  \A tid \in task_ids(s, c) : tid \in DOMAIN s.tasks /\ is_complete(s.tasks[tid])

_all_owning_tasks_complete(s, c) ==
  IF task_ids(s, c) = {} THEN FALSE
  ELSE \A tid \in task_ids(s, c) : tid \in DOMAIN s.tasks /\ is_complete(s.tasks[tid])

\* mutant: a chunk is pinned by the dependents that have completed
_any_owning_task_has_completed_dependents(s, c) ==
  \E tid \in task_ids(s, c) :
     \E d \in s.task_dependencies :
        d[2] = tid /\ d[1] \in DOMAIN s.tasks /\ is_complete(s.tasks[d[1]])

_any_owning_task_has_active_dependents(s, c) ==
  \E tid \in task_ids(s, c) : has_active_dependents(s, tid)

\* mutant: a superseded chunk is kept whatever its owners
_why_keep_superseded_kept(s, c, active_referenced, supersession_index) ==
  LET sig == _chunk_signature(s.context_chunks[c])
  IN  IF sig \in DOMAIN supersession_index /\ supersession_index[sig] # c
        THEN "superseded_but_task_still_active"
      ELSE IF c \in active_referenced THEN "referenced_by_active_task"
      ELSE IF ~_all_owning_tasks_complete(s, c) THEN "owning_task_not_complete"
      ELSE IF _any_owning_task_has_active_dependents(s, c) THEN "active_dependent_task"
      ELSE KEEP_NONE

_why_keep(s, c, active_referenced, supersession_index) ==
  LET sig == _chunk_signature(s.context_chunks[c])
  IN  IF sig \in DOMAIN supersession_index /\ supersession_index[sig] # c
        THEN IF _all_owning_tasks_complete(s, c)
               THEN KEEP_NONE
               ELSE "superseded_but_task_still_active"
      ELSE IF c \in active_referenced THEN "referenced_by_active_task"
      ELSE IF ~_all_owning_tasks_complete(s, c) THEN "owning_task_not_complete"
      ELSE IF _any_owning_task_has_active_dependents(s, c) THEN "active_dependent_task"
      ELSE KEEP_NONE

\* reasons[chunk.id] of one run over the store s (after the stale-task preamble)
Reason(s, c, active_referenced, supersession_index) ==
  IF s.context_chunks[c].status = "evictable" THEN "previously_marked_evictable"
  ELSE IF _why_keep(s, c, active_referenced, supersession_index) = KEEP_NONE
         THEN "all_tasks_complete_no_active_refs"
         ELSE _why_keep(s, c, active_referenced, supersession_index)

EvictableReasons == {"previously_marked_evictable", "all_tasks_complete_no_active_refs"}

\* mutant: the stale-task preamble skipped
run_preamble_skipped(s, update_db) == s

\* mutant: stale tasks are abandoned whatever update_db is
run_preamble_always(s, update_db) == abandon_stale_tasks(s, StaleThreshold)

\* the preamble of EvictionEngine.run: abandon_stale_tasks when update_db
run_preamble(s, update_db) ==
  IF update_db THEN abandon_stale_tasks(s, StaleThreshold) ELSE s

\* mutant: the tokens of chunks that were already evictable are not added
RECURSIVE total_tokens_newly_evictable(_, _)
total_tokens_newly_evictable(s, chunks) ==
  IF chunks = <<>> THEN 0
  ELSE (IF s.context_chunks[Head(chunks)].status = "evictable"
          THEN 0 ELSE s.context_chunks[Head(chunks)].size_tokens)
       + total_tokens_newly_evictable(s, Tail(chunks))

\* the running total of a report list: += chunk.size_tokens at each append
RECURSIVE total_tokens(_, _)
total_tokens(s, chunks) ==
  IF chunks = <<>> THEN 0
  ELSE s.context_chunks[Head(chunks)].size_tokens + total_tokens(s, Tail(chunks))

\* EvictionEngine.run: the store after the run and the report it returns.
run(s, update_db) ==
  LET s1 == run_preamble(s, update_db)
      chunks == list_all(s1)
      active_referenced == chunks_referenced_by_active_tasks(s1)
      supersession_index == _build_supersession_index(s1, chunks, <<>>)
      reasons == [c \in DOMAIN s1.context_chunks |->
                    Reason(s1, c, active_referenced, supersession_index)]
      IsEv(c) == reasons[c] \in EvictableReasons
      IsKept(c) == reasons[c] \notin EvictableReasons
      s2 == [s1 EXCEPT !.context_chunks =
               [c \in DOMAIN s1.context_chunks |->
                  IF update_db /\ reasons[c] = "all_tasks_complete_no_active_refs"
                    THEN [s1.context_chunks[c] EXCEPT !.status = "evictable"]
                    ELSE s1.context_chunks[c]]]
  IN  [store |-> s2,
       report |-> [evictable_chunks |-> SelectSeq(chunks, IsEv),
                   preserved_chunks |-> SelectSeq(chunks, IsKept),
                   total_evictable_tokens |-> total_tokens(s1, SelectSeq(chunks, IsEv)),
                   total_preserved_tokens |-> total_tokens(s1, SelectSeq(chunks, IsKept)),
                   reasons |-> reasons]]

\* EvictionEngine.evictable_token_count:
\* SELECT COALESCE(SUM(size_tokens), 0) ... WHERE status = 'evictable'
evictable_token_count(s) ==
  LET RECURSIVE Sum(_)
      Sum(D) == IF D = {} THEN 0
                ELSE LET c == CHOOSE c \in D : TRUE
                     IN  s.context_chunks[c].size_tokens + Sum(D \ {c})
  IN  Sum({c \in DOMAIN s.context_chunks : s.context_chunks[c].status = "evictable"})

\* ------------------------------------------------------------- hook events
\* tool_input as the hooks read it: file_path (Read/Edit/Write), edits (the
\* file_path of each MultiEdit edit), task_id (id / taskId / task_id),
\* status (TaskUpdate), todos (TodoWrite: <<[id, status], ...>>), dependsOn
\* (the task ids a TaskCreate declares; no hook reads this key).
NO_STATUS == "none"  \* tool_input has no "status" key

Input(file_path, edits, task_id, status, todos) ==
  [file_path |-> file_path, edits |-> edits, task_id |-> task_id,
   status |-> status, todos |-> todos, dependsOn |-> <<>>]

HostStatuses == {"pending", "in_progress", "completed"}

EditLists == {<<p>> : p \in Paths} \cup
             {<<pq[1], pq[2]>> : pq \in {x \in Paths \X Paths : x[1] < x[2]}}

Todos == [id : TaskIds, status : HostStatuses]

\* a TodoWrite lists each task at most once
TodoLists == {<<t>> : t \in Todos} \cup
             {<<tu[1], tu[2]>> : tu \in {x \in Todos \X Todos : x[1].id # x[2].id}}

ToolNames == {"Read", "Edit", "Write", "MultiEdit", "Bash",
              "TaskCreate", "TaskUpdate", "TodoWrite"}

ToolInputs(tool_name) ==
  CASE tool_name \in {"Read", "Edit", "Write"} ->
         {Input(p, <<>>, NULL, NO_STATUS, <<>>) : p \in Paths}
    [] tool_name = "MultiEdit" ->
         {Input(NULL, e, NULL, NO_STATUS, <<>>) : e \in EditLists}
    [] tool_name = "Bash" -> {Input(NULL, <<>>, NULL, NO_STATUS, <<>>)}
    [] tool_name = "TaskCreate" ->
         {Input(NULL, <<>>, t, NO_STATUS, <<>>) : t \in TaskIds}
    [] tool_name = "TaskUpdate" ->
         {Input(NULL, <<>>, t, st, <<>>) : t \in TaskIds, st \in HostStatuses \cup {NO_STATUS}}
    [] tool_name = "TodoWrite" ->
         {Input(NULL, <<>>, NULL, NO_STATUS, td) : td \in TodoLists}

\* ------------------------------------------------------------ pre_tool_use
_handle_task_create(s, tool_input) ==
  IF tool_input.task_id # NULL THEN create(s, tool_input.task_id) ELSE s

\* mutant: a task that is not in the store is not created
_handle_task_update_known_only(s, tool_input) ==
  IF tool_input.task_id = NULL \/ tool_input.status = NO_STATUS THEN s
  ELSE update_status(s, tool_input.task_id, tool_input.status)

_handle_task_update(s, tool_input) ==
  IF tool_input.task_id = NULL THEN s
  ELSE LET s1 == IF tool_input.task_id \notin DOMAIN s.tasks
                   THEN create(s, tool_input.task_id) ELSE s
       IN  IF tool_input.status # NO_STATUS
             THEN update_status(s1, tool_input.task_id, tool_input.status)
             ELSE s1

RECURSIVE _handle_todo_write(_, _)
_handle_todo_write(s, todos) ==
  IF todos = <<>> THEN s
  ELSE LET todo == Head(todos)
           s1 == IF todo.id \notin DOMAIN s.tasks THEN create(s, todo.id) ELSE s
       IN  _handle_todo_write(update_status(s1, todo.id, todo.status), Tail(todos))

\* the registry mutation of pre_tool_use.main
pre_lifecycle(s, tool_name, tool_input) ==
  CASE tool_name = "TaskCreate" -> _handle_task_create(s, tool_input)
    [] tool_name = "TaskUpdate" -> _handle_task_update(s, tool_input)
    [] tool_name = "TodoWrite" -> _handle_todo_write(s, tool_input.todos)
    [] OTHER -> s

\* the decision pre_tool_use.main prints
pre_decision(s, tool_name) ==
  IF tool_name \in WORK_TOOLS /\ get_current_active(s) = NULL THEN "block" ELSE "allow"

\* ----------------------------------------------------------- post_tool_use
NoTag == [tool_use_id |-> NULL, active_task_id |-> NULL]  \* no pending_tag.json

_read_pending_task_id(tag, tool_use_id) ==
  IF tag.tool_use_id = tool_use_id THEN tag.active_task_id ELSE NULL

\* mutant: only the first entry of a MultiEdit's edits list
_extract_edited_paths_first_edit(tool_input) ==
  (IF tool_input.file_path # NULL THEN <<tool_input.file_path>> ELSE <<>>)
    \o (IF tool_input.edits = <<>> THEN <<>> ELSE <<Head(tool_input.edits)>>)

_extract_edited_paths(tool_input) ==
  (IF tool_input.file_path # NULL THEN <<tool_input.file_path>> ELSE <<>>)
    \o tool_input.edits

\* the task the post-tool hook hands to ingest
post_task_id(tag, tool_use_id, tool_name, tool_input) ==
  IF _read_pending_task_id(tag, tool_use_id) # NULL
    THEN _read_pending_task_id(tag, tool_use_id)
  ELSE IF tool_name = "TaskCreate" THEN tool_input.task_id
  ELSE IF tool_name = "TaskUpdate" /\ tool_input.status = "in_progress"
    THEN tool_input.task_id
  ELSE NULL

RECURSIVE invalidate_paths(_, _)
invalidate_paths(s, paths) ==
  IF paths = <<>> THEN s
  ELSE invalidate_paths(invalidate_reads_for_path(s, Head(paths)), Tail(paths))

\* post_tool_use.main: ingest, write-invalidation, engine run on completion.
\* An exception in ingest (ok = FALSE) ends the process before the later steps.
post_tool_use(s, tag, tool_use_id, tool_name, tool_input, has_text) ==
  LET s1 == IF has_text
              THEN ingest(s, tool_use_id, tool_name, tool_input, ShortOutput,
                          post_task_id(tag, tool_use_id, tool_name, tool_input))
              ELSE s
      s2 == IF tool_name \in FILE_MUTATORS
              THEN invalidate_paths(s1, _extract_edited_paths(tool_input))
              ELSE s1
      s3 == IF tool_name = "TaskUpdate" /\ tool_input.status = "completed"
              THEN run(s2, TRUE).store
              ELSE s2
  IN  IF s1.ok THEN s3 ELSE s1

\* ------------------------------------------------------------------ actions
NoResult == [op |-> "none"]

\* Commit the store a call leaves behind.  Task ids and invocation ids are
\* opaque strings, so the host is taken to hand them out in the order 1, 2, ...
Commit(s) ==
  /\ DOMAIN s.tasks = 1..Cardinality(DOMAIN s.tasks)
  /\ DOMAIN s.context_chunks = 1..Cardinality(DOMAIN s.context_chunks)
  /\ tasks' = s.tasks
  /\ context_chunks' = s.context_chunks
  /\ task_chunks' = s.task_chunks
  /\ reference_edges' = s.reference_edges
  /\ task_dependencies' = s.task_dependencies
  /\ now' = s.now

Init ==
  /\ tasks = <<>>
  /\ context_chunks = <<>>
  /\ task_chunks = {}
  /\ reference_edges = {}
  /\ task_dependencies = {}
  /\ now = 0
  /\ pending_tag = NoTag
  /\ pre_active = <<>>
  /\ result = NoResult

\* TaskRegistry.create(id, subject)
Create(id) ==
  /\ Commit(create(Store, id))
  /\ result' = NoResult
  /\ UNCHANGED <<pending_tag, pre_active>>

\* TaskRegistry.update_status(task_id, status)
UpdateStatus(id, status) ==
  /\ Commit(update_status(Store, id, status))
  /\ result' = NoResult
  /\ UNCHANGED <<pending_tag, pre_active>>

\* TaskRegistry.add_dependency(dependent, dependency)
AddDependency(dependent, dependency) ==
  /\ Cardinality(task_dependencies) < MaxDeps
  /\ Commit(add_dependency(Store, dependent, dependency))
  /\ result' = NoResult
  /\ UNCHANGED <<pending_tag, pre_active>>

\* ReferenceGraph.add_edge(task_id, chunk_id, reference_type)
AddEdge(task_id, chunk_id, reference_type) ==
  /\ Cardinality(reference_edges) < MaxRefEdges
  /\ Commit(add_edge(Store, task_id, chunk_id, reference_type))
  /\ result' = NoResult
  /\ UNCHANGED <<pending_tag, pre_active>>

\* ReferenceGraph.remove_edge(task_id, chunk_id, reference_type)
RemoveEdge(task_id, chunk_id, reference_type) ==
  /\ Commit(remove_edge(Store, task_id, chunk_id, reference_type))
  /\ result' = NoResult
  /\ UNCHANGED <<pending_tag, pre_active>>

\* ContextTagger.ingest(tool_use_id, tool_name, tool_input, tool_output, task_id)
Ingest(tool_use_id, tool_name, tool_input, tool_output, task_id) ==
  /\ Commit(ingest(Store, tool_use_id, tool_name, tool_input, tool_output, task_id))
  /\ result' = NoResult
  /\ UNCHANGED <<pending_tag, pre_active>>

\* ContextTagger.mark_evictable(chunk_id)
MarkEvictable(chunk_id) ==
  /\ Commit(mark_evictable(Store, chunk_id))
  /\ result' = NoResult
  /\ UNCHANGED <<pending_tag, pre_active>>

\* ContextTagger.mark_integrated(chunk_id)
MarkIntegrated(chunk_id) ==
  /\ Commit(mark_integrated(Store, chunk_id))
  /\ result' = NoResult
  /\ UNCHANGED <<pending_tag, pre_active>>

\* ContextTagger.invalidate_reads_for_path(path), returning the count
InvalidateReadsForPath(path) ==
  /\ Commit(invalidate_reads_for_path(Store, path))
  /\ result' = [op |-> "invalidate_reads_for_path", path |-> path,
                n |-> Cardinality(InvalidatedBy(Store, path))]
  /\ UNCHANGED <<pending_tag, pre_active>>

\* EvictionEngine.run(update_db), returning the report
Run(update_db) ==
  LET r == run(Store, update_db)
  IN  /\ Commit(r.store)
      /\ result' = [op |-> "run", update_db |-> update_db, report |-> r.report]
      /\ UNCHANGED <<pending_tag, pre_active>>

\* TaskRegistry.abandon_stale_tasks(threshold), returning the transitioned ids
AbandonStaleTasks(threshold) ==
  /\ Commit(abandon_stale_tasks(Store, threshold))
  /\ result' = [op |-> "abandon_stale_tasks", threshold |-> threshold,
                ids |-> StaleTasks(Store, threshold)]
  /\ UNCHANGED <<pending_tag, pre_active>>

\* one pre_tool_use.py process
PreToolUse(tool_use_id, tool_name, tool_input) ==
  LET s1 == pre_lifecycle(Store, tool_name, tool_input)
  IN  /\ Commit(s1)
      /\ pending_tag' = [tool_use_id |-> tool_use_id,
                         active_task_id |-> get_current_active(s1)]
      /\ pre_active' = [x \in DOMAIN pre_active |->
                          IF x = tool_use_id
                            THEN [ran |-> TRUE, tool_name |-> tool_name,
                                  tool_input |-> tool_input,
                                  created |-> DOMAIN s1.tasks \ DOMAIN tasks,
                                  active_task_id |-> get_current_active(s1)]
                            ELSE pre_active[x]]
      /\ result' = [op |-> "pre_tool_use", tool_name |-> tool_name,
                    decision |-> pre_decision(s1, tool_name)]

\* one post_tool_use.py process
PostToolUse(tool_use_id, tool_name, tool_input, has_text) ==
  LET s1 == post_tool_use(Store, pending_tag, tool_use_id, tool_name, tool_input, has_text)
  IN  /\ Commit(s1)
      /\ result' = [op |-> "post_tool_use", tool_name |-> tool_name,
                    tool_input |-> tool_input, ok |-> s1.ok]
      /\ UNCHANGED <<pending_tag, pre_active>>

\* ----------------------------------------------------------- specifications
ReadInputs == ToolInputs("Read")

\* Spec: tasks, ingested Read results and engine runs (direct API calls).
Next ==
  \/ \E id \in TaskIds : Create(id)
  \/ \E id \in TaskIds, status \in TaskStatuses : UpdateStatus(id, status)
  \/ \E x \in ChunkIds, ti \in ReadInputs, t \in TaskIds \cup {NULL} :
       Ingest(x, "Read", ti, ShortOutput, t)
  \/ Run(TRUE)

Spec == Init /\ [][Next]_vars

\* SpecRefs: the same with reference edges, tasks moving forward only.
ForwardStatuses == {"in_progress", "completed"}

NextRefs ==
  \/ \E id \in TaskIds : Create(id)
  \/ \E id \in TaskIds, status \in ForwardStatuses : UpdateStatus(id, status)
  \/ \E x \in ChunkIds, ti \in ReadInputs, t \in TaskIds \cup {NULL} :
       Ingest(x, "Read", ti, ShortOutput, t)
  \/ \E t \in TaskIds, c \in ChunkIds, r \in EdgeTypes : AddEdge(t, c, r)
  \/ \E t \in TaskIds, c \in ChunkIds, r \in EdgeTypes : RemoveEdge(t, c, r)
  \/ \E b \in BOOLEAN : Run(b)

SpecRefs == Init /\ [][NextRefs]_vars

\* SpecDeps: the same with declared dependencies instead of reference edges.
NextDeps ==
  \/ \E id \in TaskIds : Create(id)
  \/ \E id \in TaskIds, status \in ForwardStatuses : UpdateStatus(id, status)
  \/ \E x \in ChunkIds, ti \in ReadInputs, t \in TaskIds \cup {NULL} :
       Ingest(x, "Read", ti, ShortOutput, t)
  \/ \E d \in TaskIds, p \in TaskIds : AddDependency(d, p)
  \/ Run(TRUE)

SpecDeps == Init /\ [][NextDeps]_vars

\* SpecTagger: the tagger API over Read and Edit results of one task.
TaggerTools == {"Read", "Edit"}

NextTagger ==
  \/ Create(1)
  \/ \E status \in ForwardStatuses : UpdateStatus(1, status)
  \/ \E x \in ChunkIds, tn \in TaggerTools, t \in {NULL, 1} :
       \E ti \in ToolInputs(tn) : Ingest(x, tn, ti, ShortOutput, t)
  \/ \E c \in ChunkIds : MarkEvictable(c)
  \/ \E c \in ChunkIds : MarkIntegrated(c)
  \/ \E p \in Paths : InvalidateReadsForPath(p)
  \/ Run(TRUE)

SpecTagger == Init /\ [][NextTagger]_vars

\* SpecLifecycle: registry calls and the pre-tool hook on every kind of event.
NextLifecycle ==
  \/ \E id \in TaskIds : Create(id)
  \/ \E id \in TaskIds, status \in TaskStatuses : UpdateStatus(id, status)
  \/ \E x \in ChunkIds, tn \in ToolNames : \E ti \in ToolInputs(tn) : PreToolUse(x, tn, ti)

SpecLifecycle == Init /\ [][NextLifecycle]_vars

\* SpecWrites: the pre-tool hook on the file tools and on TaskUpdate of one
\* task, the post-tool hook on the file tools (a Read always returns text).
WriteTools == {"Read", "Edit", "Write", "MultiEdit", "TaskUpdate"}

WriteInputs(tool_name) ==
  {ti \in ToolInputs(tool_name) :
     tool_name = "TaskUpdate" => ti.task_id = 1 /\ ti.status \in ForwardStatuses}

NextWrites ==
  \/ \E x \in ChunkIds, tn \in WriteTools : \E ti \in WriteInputs(tn) : PreToolUse(x, tn, ti)
  \/ \E x \in ChunkIds, tn \in WriteTools \ {"TaskUpdate"}, h \in BOOLEAN :
       \E ti \in WriteInputs(tn) :
          (h \/ tn \in FILE_MUTATORS) /\ PostToolUse(x, tn, ti, h)

SpecWrites == Init /\ [][NextWrites]_vars

\* ------------------------------------------------------------------ claims
\* C1: in every reachable state a chunk with at least one pending or
\* in_progress owning task does not have status evictable (Spec performs no
\* write-invalidation, so the exception for write-invalidated chunks never applies).
C1_ActiveOwnerNotEvictable ==
  \A c \in DOMAIN context_chunks :
     (\E t \in task_ids(Store, c) : t \in DOMAIN tasks /\ is_active(tasks[t]))
       => context_chunks[c].status # "evictable"

\* C2: no EvictionEngine.run classifies as evictable a chunk that is the target
\* of a reference edge from a pending or in_progress task, whatever its
\* ownership or supersession state.
C2_ReferencedNeverClassifiedEvictable ==
  result.op = "run" =>
    \A c \in DOMAIN context_chunks :
       c \in chunks_referenced_by_active_tasks(Store)
         => result.report.reasons[c] # "all_tasks_complete_no_active_refs"

\* C3: a chunk that, when run(update_db=true) starts, has an owning task, has
\* only completed or abandoned owning tasks, is referenced by no active task and
\* has no owning task with an active dependent, is stored evictable and listed
\* in the report's evictable list when the run returns.
C3_CompletedOwnersEvicted ==
  [][Run(TRUE) =>
       \A c \in DOMAIN context_chunks :
          ( /\ task_ids(Store, c) # {}
            /\ \A t \in task_ids(Store, c) :
                 t \in DOMAIN tasks /\ tasks[t].status \in {"completed", "abandoned"}
            /\ c \notin chunks_referenced_by_active_tasks(Store)
            /\ ~_any_owning_task_has_active_dependents(Store, c) )
          => /\ context_chunks'[c].status = "evictable"
             /\ \E i \in DOMAIN result'.report.evictable_chunks :
                  result'.report.evictable_chunks[i] = c]_vars

\* C4: no engine run classifies as evictable a chunk owned by a task A while
\* some pending or in_progress task B has a declared dependency edge B -> A.
C4_DependencyPinned ==
  result.op = "run" =>
    \A c \in DOMAIN context_chunks :
       _any_owning_task_has_active_dependents(Store, c)
         => result.report.reasons[c] # "all_tasks_complete_no_active_refs"

\* C5: chunk status is monotonic: once a chunk's stored status is evictable no
\* later operation changes it to fresh or integrated.
C5_EvictableIsTerminal ==
  [][\A c \in DOMAIN context_chunks :
       context_chunks[c].status = "evictable" => context_chunks'[c].status = "evictable"]_vars

\* C6: task terminal states are absorbing: once a task is completed or
\* abandoned, no registry call or pre-tool lifecycle event changes its status.
C6_TerminalAbsorbing ==
  [][\A t \in DOMAIN tasks :
       tasks[t].status \in {"completed", "abandoned"}
         => tasks'[t].status = tasks[t].status]_vars

\* C7: in every reachable state, a task's completed_at is non-null if and only
\* if its status is completed or abandoned.
C7_CompletedAtIffTerminal ==
  \A t \in DOMAIN tasks :
     tasks[t].completed_at # NULL <=> tasks[t].status \in {"completed", "abandoned"}

\* C8: an orphan chunk (no ownership edge) is never classified evictable by the
\* rules of an EvictionEngine.run nor marked evictable by one, whatever its
\* supersession state, its reference edges and the task statuses: when a run
\* returns, an orphan is reported or stored evictable only as one that was
\* already evictable when the run started.
C8_OrphanNeverEvicted ==
  result.op = "run" =>
    \A c \in DOMAIN context_chunks :
       task_ids(Store, c) = {}
         => /\ result.report.reasons[c] # "all_tasks_complete_no_active_refs"
            /\ context_chunks[c].status = "evictable"
                 => result.report.reasons[c] = "previously_marked_evictable"
            /\ (\E i \in DOMAIN result.report.evictable_chunks :
                   result.report.evictable_chunks[i] = c)
                 => result.report.reasons[c] = "previously_marked_evictable"

\* C8 witness: a run has classified a superseded orphan, referenced by a task,
\* while every task is completed.
C8_Witness ==
  /\ result.op = "run"
  /\ DOMAIN tasks # {}
  /\ \A t \in DOMAIN tasks : tasks[t].status = "completed"
  /\ \E c \in DOMAIN context_chunks, d \in DOMAIN context_chunks :
       /\ task_ids(Store, c) = {}
       /\ \E e \in reference_edges : e[2] = c
       /\ _chunk_signature(context_chunks[c]) = _chunk_signature(context_chunks[d])
       /\ context_chunks[c].created_at < context_chunks[d].created_at
       /\ result.report.reasons[c] = "superseded_but_task_still_active"
       /\ context_chunks[c].status = "fresh"

\* C9: invalidate_reads_for_path(p) sets to evictable exactly the chunks with
\* tool_name Read, file_path p and a status other than evictable, returns the
\* number of chunks it changed, and leaves every other chunk, every task and
\* every edge unchanged.
C9_InvalidateExact ==
  [][\A p \in Paths :
       InvalidateReadsForPath(p) =>
         LET targets == {c \in DOMAIN context_chunks :
                           /\ context_chunks[c].tool_name = "Read"
                           /\ context_chunks[c].tool_input.file_path = p
                           /\ context_chunks[c].status # "evictable"}
         IN  /\ DOMAIN context_chunks' = DOMAIN context_chunks
             /\ \A c \in targets :
                  context_chunks'[c] = [context_chunks[c] EXCEPT !.status = "evictable"]
             /\ \A c \in DOMAIN context_chunks \ targets :
                  context_chunks'[c] = context_chunks[c]
             /\ result'.n = Cardinality(targets)
             /\ UNCHANGED <<tasks, task_chunks, reference_edges, task_dependencies>>]_vars

\* C9 witness: an invalidation changed one Read chunk of its path and left a
\* fresh Edit chunk of the same path alone.
C9_Witness ==
  /\ result.op = "invalidate_reads_for_path"
  /\ result.n = 1
  /\ \E c \in DOMAIN context_chunks, d \in DOMAIN context_chunks :
       /\ context_chunks[c].tool_name = "Read"
       /\ context_chunks[c].tool_input.file_path = result.path
       /\ context_chunks[c].status = "evictable"
       /\ context_chunks[d].tool_name = "Edit"
       /\ context_chunks[d].tool_input.file_path = result.path
       /\ context_chunks[d].status = "fresh"

\* C10: when the post-tool handler of an Edit, Write or MultiEdit finishes,
\* every Read chunk ingested earlier whose file_path is a path that call
\* touched (file_path, and every path of a MultiEdit's edits list) is evictable,
\* whatever the status of its owning task.
C10_WriteEvictsPriorReads ==
  (result.op = "post_tool_use" /\ result.tool_name \in FILE_MUTATORS) =>
    \A c \in DOMAIN context_chunks :
       ( /\ context_chunks[c].tool_name = "Read"
         /\ \/ context_chunks[c].tool_input.file_path = result.tool_input.file_path
            \/ \E i \in DOMAIN result.tool_input.edits :
                 result.tool_input.edits[i] = context_chunks[c].tool_input.file_path )
       => context_chunks[c].status = "evictable"

\* C10 witness: after the post-tool handler of a MultiEdit over two paths, an
\* earlier Read of its second path is evictable while its owner is in_progress.
C10_Witness ==
  /\ result.op = "post_tool_use"
  /\ result.tool_name = "MultiEdit"
  /\ \E c \in DOMAIN context_chunks, m \in DOMAIN context_chunks :
       /\ context_chunks[c].tool_name = "Read"
       /\ context_chunks[c].status = "evictable"
       /\ \E t \in task_ids(Store, c) : tasks[t].status = "in_progress"
       /\ context_chunks[m].tool_name = "MultiEdit"
       /\ context_chunks[m].created_at > context_chunks[c].created_at
       /\ Len(context_chunks[m].tool_input.edits) = 2
       /\ context_chunks[m].tool_input.edits[2] = context_chunks[c].tool_input.file_path

ParallelTools == {"Read", "TaskUpdate"}

ParallelInputs(tool_name) ==
  {ti \in ToolInputs(tool_name) :
     tool_name = "TaskUpdate" => ti.status \in ForwardStatuses}

NextParallel ==
  \/ \E x \in ChunkIds, tn \in ParallelTools :
       \E ti \in ParallelInputs(tn) : PreToolUse(x, tn, ti)
  \/ \E x \in ChunkIds, tn \in ParallelTools, h \in BOOLEAN :
       \E ti \in ParallelInputs(tn) :
          (h = (tn = "Read")) /\ PostToolUse(x, tn, ti, h)

SpecParallel == Init /\ [][NextParallel]_vars

NextAbandon ==
  \/ \E id \in TaskIds : Create(id)
  \/ \E id \in TaskIds, status \in ForwardStatuses : UpdateStatus(id, status)
  \/ \E x \in ChunkIds, ti \in ReadInputs, t \in TaskIds \cup {NULL} :
       Ingest(x, "Read", ti, ShortOutput, t)
  \/ \E threshold \in 1..StaleThreshold : AbandonStaleTasks(threshold)
  \/ \E b \in BOOLEAN : Run(b)

SpecAbandon == Init /\ [][NextAbandon]_vars

\* C13: abandon_stale_tasks(threshold) sets to abandoned exactly the in_progress
\* tasks with at least threshold chunks of the whole store created after them,
\* returns exactly those ids, and leaves no task that a second call would
\* transition; every engine run with update_db true abandons the tasks that
\* are stale at the engine's threshold.
C13_AbandonStaleExact ==
  [][LET After(t) == Cardinality({c \in DOMAIN context_chunks :
                        context_chunks[c].created_at > tasks[t].created_at})
         Stale(th) == {t \in DOMAIN tasks :
                         tasks[t].status = "in_progress" /\ After(t) >= th}
     IN  /\ result'.op = "abandon_stale_tasks"
              => /\ result'.ids = Stale(result'.threshold)
                 /\ DOMAIN tasks' = DOMAIN tasks
                 /\ \A t \in DOMAIN tasks :
                      tasks'[t].status = IF t \in Stale(result'.threshold)
                                           THEN "abandoned" ELSE tasks[t].status
                 /\ context_chunks' = context_chunks
                 /\ \A t \in DOMAIN tasks :
                      tasks'[t].status = "in_progress" => After(t) < result'.threshold
         /\ (result'.op = "run" /\ result'.update_db)
              => \A t \in Stale(StaleThreshold) : tasks'[t].status = "abandoned"]_vars

\* C13 witness: a direct call returned one stale task, now abandoned, and left
\* a younger in_progress task alone.
C13_Witness ==
  /\ result.op = "abandon_stale_tasks"
  /\ \E t \in DOMAIN tasks, u \in DOMAIN tasks :
       /\ result.ids = {t}
       /\ tasks[t].status = "abandoned"
       /\ tasks[u].status = "in_progress"
       /\ tasks[u].created_at > tasks[t].created_at
       /\ \E c \in DOMAIN context_chunks :
            context_chunks[c].created_at < tasks[u].created_at

\* C14: abandoned is treated as completed by every eviction rule: swapping the
\* status of any one task between completed and abandoned does not change
\* which chunks an engine run classifies evictable.
C14_AbandonedLikeCompleted ==
  \A t \in DOMAIN tasks :
     tasks[t].status \in {"completed", "abandoned"} =>
       LET other == IF tasks[t].status = "completed" THEN "abandoned" ELSE "completed"
           swapped == [Store EXCEPT !.tasks[t].status = other]
           Evictable(s) == {c \in DOMAIN s.context_chunks :
                              run(s, FALSE).report.reasons[c] \in EvictableReasons}
       IN  Evictable(swapped) = Evictable(Store)

\* C15: a task abandoned by stale-task detection is still abandoned after every
\* later engine run and abandon_stale_tasks call, and no such later call
\* returns it.
C15_AbandonedStaysAbandoned ==
  [][result'.op \in {"run", "abandon_stale_tasks"}
       => \A t \in DOMAIN tasks :
             tasks[t].status = "abandoned"
               => /\ tasks'[t] = tasks[t]
                  /\ result'.op = "abandon_stale_tasks" => t \notin result'.ids]_vars

\* C15 witness: a call of abandon_stale_tasks returned nothing while an
\* abandoned task still has at least threshold chunks created after it.
C15_Witness ==
  /\ result.op = "abandon_stale_tasks"
  /\ result.ids = {}
  /\ \E t \in DOMAIN tasks :
       /\ tasks[t].status = "abandoned"
       /\ ChunksAfter(Store, t) >= result.threshold

\* C16: the reason a run reports for a chunk follows the ordered rules:
\* previously_marked_evictable if it was evictable when the run started,
\* otherwise the first that applies of superseded_but_task_still_active
\* (superseded and not all owners completed), referenced_by_active_task,
\* owning_task_not_complete (orphan or an owner not completed),
\* active_dependent_task, and all_tasks_complete_no_active_refs exactly when
\* none of them applies.
C16_ReasonByOrderedRules ==
  [][result'.op = "run" =>
       \A c \in DOMAIN context_chunks :
          LET owners == {e[1] : e \in {x \in task_chunks : x[2] = c}}
              active(t) == tasks'[t].status \in {"pending", "in_progress"}
              complete == owners # {} /\ \A t \in owners : tasks'[t].status = "completed"
              superseded == \E d \in DOMAIN context_chunks :
                               /\ context_chunks[d].tool_name = context_chunks[c].tool_name
                               /\ context_chunks[d].tool_input = context_chunks[c].tool_input
                               /\ context_chunks[d].created_at > context_chunks[c].created_at
              referenced == \E e \in reference_edges : e[2] = c /\ active(e[1])
              dependent == \E d \in task_dependencies : d[2] \in owners /\ active(d[1])
          IN  result'.report.reasons[c] =
                IF context_chunks[c].status = "evictable" THEN "previously_marked_evictable"
                ELSE IF superseded /\ ~complete THEN "superseded_but_task_still_active"
                ELSE IF referenced THEN "referenced_by_active_task"
                ELSE IF ~complete THEN "owning_task_not_complete"
                ELSE IF dependent THEN "active_dependent_task"
                ELSE "all_tasks_complete_no_active_refs"]_vars

\* C17 as stated: a run that directly follows a run, with no other operation
\* in between, reports the same set of evictable chunk ids and the same set of
\* preserved chunk ids, whatever update_db each of the two runs is given.
C17_ConsecutiveRunsAgree ==
  result.op = "run" =>
    \A b \in BOOLEAN :
       LET ids(seq) == {seq[i] : i \in DOMAIN seq}
           next == run(Store, b).report
       IN  /\ ids(next.evictable_chunks) = ids(result.report.evictable_chunks)
           /\ ids(next.preserved_chunks) = ids(result.report.preserved_chunks)

\* C17 amended: the two reports agree on both sets unless the first run had
\* update_db false and the second has update_db true (the second then abandons
\* stale tasks the first one left in_progress).
C17_ConsecutiveRunsAgreeSameStore ==
  result.op = "run" =>
    \A b \in BOOLEAN :
       (result.update_db \/ ~b) =>
         LET ids(seq) == {seq[i] : i \in DOMAIN seq}
             next == run(Store, b).report
         IN  /\ ids(next.evictable_chunks) = ids(result.report.evictable_chunks)
             /\ ids(next.preserved_chunks) = ids(result.report.preserved_chunks)

\* C17 witness: a run with update_db true marked one chunk and preserved
\* another; the run that follows reports the first as previously marked.
C17_Witness ==
  /\ result.op = "run"
  /\ result.update_db
  /\ \E c \in DOMAIN context_chunks, d \in DOMAIN context_chunks :
       /\ result.report.reasons[c] = "all_tasks_complete_no_active_refs"
       /\ result.report.reasons[d] \notin EvictableReasons
       /\ run(Store, TRUE).report.reasons[c] = "previously_marked_evictable"
       /\ run(Store, TRUE).report.reasons[d] = result.report.reasons[d]

\* C18: run(update_db = false) leaves the store unchanged: no chunk status
\* changes, no task is abandoned, no ownership or reference edge and no
\* dependency is added or removed.
C18_DryRunLeavesStore ==
  [][(result'.op = "run" /\ ~result'.update_db)
       => UNCHANGED <<tasks, context_chunks, task_chunks, reference_edges,
                      task_dependencies>>]_vars

\* C18 witness: a run with update_db false reported a chunk evictable that is
\* still not marked, while a stale in_progress task is still in_progress.
C18_Witness ==
  /\ result.op = "run"
  /\ ~result.update_db
  /\ StaleTasks(Store, StaleThreshold) # {}
  /\ \E c \in DOMAIN context_chunks :
       /\ result.report.reasons[c] = "all_tasks_complete_no_active_refs"
       /\ context_chunks[c].status # "evictable"

\* SpecTokens: tasks, Read results of either length and engine runs.
NextTokens ==
  \/ \E id \in TaskIds : Create(id)
  \/ \E id \in TaskIds, status \in ForwardStatuses : UpdateStatus(id, status)
  \/ \E x \in ChunkIds, ti \in ReadInputs, out \in Outputs, t \in TaskIds \cup {NULL} :
       Ingest(x, "Read", ti, out, t)
  \/ \E b \in BOOLEAN : Run(b)

SpecTokens == Init /\ [][NextTokens]_vars

\* C19: every report partitions the store's chunks (each chunk is in exactly
\* one of evictable_chunks and preserved_chunks, once, and has one reason), its
\* token totals are the sums of size_tokens over the two lists, and right after
\* run(update_db = true) evictable_token_count() is the report's evictable total.
C19_ReportPartitionsAndTotals ==
  result.op = "run" =>
    LET r == result.report
        ids(seq) == {seq[i] : i \in DOMAIN seq}
        size(c) == context_chunks[c].size_tokens
        Sizes == {_estimate_tokens(out) : out \in Outputs}
        RECURSIVE Weigh(_, _)
        Weigh(seq, S) ==
          IF S = {} THEN 0
          ELSE LET n == CHOOSE n \in S : TRUE
               IN  n * Cardinality({c \in ids(seq) : size(c) = n}) + Weigh(seq, S \ {n})
    IN  /\ ids(r.evictable_chunks) \cup ids(r.preserved_chunks) = DOMAIN context_chunks
        /\ ids(r.evictable_chunks) \cap ids(r.preserved_chunks) = {}
        /\ Len(r.evictable_chunks) = Cardinality(ids(r.evictable_chunks))
        /\ Len(r.preserved_chunks) = Cardinality(ids(r.preserved_chunks))
        /\ DOMAIN r.reasons = DOMAIN context_chunks
        /\ \A c \in DOMAIN context_chunks : size(c) \in Sizes
        /\ r.total_evictable_tokens = Weigh(r.evictable_chunks, Sizes)
        /\ r.total_preserved_tokens = Weigh(r.preserved_chunks, Sizes)
        /\ result.update_db => evictable_token_count(Store) = r.total_evictable_tokens

\* C19 witness: a run with update_db true reported a previously marked chunk
\* and a newly marked chunk of different sizes, or one of them with a preserved
\* chunk, so that both totals are sums over lists that matter.
C19_Witness ==
  /\ result.op = "run"
  /\ result.update_db
  /\ Len(result.report.evictable_chunks) = 2
  /\ result.report.reasons[1] # result.report.reasons[2]
  /\ context_chunks[1].size_tokens # context_chunks[2].size_tokens
  /\ result.report.total_evictable_tokens = 3

InitHistory ==
  /\ tasks = <<>>
  /\ context_chunks = <<>>
  /\ task_chunks = {}
  /\ reference_edges = {}
  /\ task_dependencies = {}
  /\ now = 0
  /\ pending_tag = NoTag
  /\ pre_active = [x \in ChunkIds |->
                     [ran |-> FALSE, tool_name |-> "",
                      tool_input |-> Input(NULL, <<>>, NULL, NO_STATUS, <<>>),
                      created |-> {}, active_task_id |-> NULL]]
  /\ result = NoResult

InterleaveTools == {"Read", "TaskCreate", "TaskUpdate"}

\* one file to read; tasks are created and started, never finished
InterleaveInputs(tool_name) ==
  {ti \in ToolInputs(tool_name) :
     /\ tool_name = "Read" => ti.file_path = 1
     /\ tool_name = "TaskUpdate" => ti.status = "in_progress"}

NextInterleave ==
  \/ \E x \in ChunkIds, tn \in InterleaveTools :
       \E ti \in InterleaveInputs(tn) : PreToolUse(x, tn, ti)
  \/ \E x \in ChunkIds :
       /\ pre_active[x].ran
       /\ PostToolUse(x, pre_active[x].tool_name, pre_active[x].tool_input, TRUE)

SpecInterleave == InitHistory /\ [][NextInterleave]_vars

\* C21: the chunk the post-tool hook creates for invocation X (of a tool other
\* than TaskCreate and TaskUpdate) is owned by the task that was active when
\* the pre-tool hook of X ran, and by no task if none was active then, whatever
\* happened to the active task and to the pending tag in between.
C21_OwnedByTaskActiveAtPreTool ==
  [][(result'.op = "post_tool_use" /\ result'.tool_name \notin {"TaskCreate", "TaskUpdate"})
       => \A x \in DOMAIN context_chunks' \ DOMAIN context_chunks :
            (x \in DOMAIN pre_active /\ pre_active[x].ran)
              => {e[1] : e \in {y \in task_chunks' : y[2] = x}}
                   = (IF pre_active[x].active_task_id = NULL
                        THEN {} ELSE {pre_active[x].active_task_id})]_vars

\* C22: the chunk of a TaskCreate invocation is owned by the task it created,
\* and the chunk of a TaskUpdate to in_progress by the task being started, also
\* when a different task is in_progress at that moment (stated for a post-tool
\* hook that finds the tag of its own invocation).
C22_LifecycleChunkOwnedByItsTask ==
  [][(/\ result'.op = "post_tool_use"
      /\ \/ result'.tool_name = "TaskCreate"
         \/ result'.tool_name = "TaskUpdate" /\ result'.tool_input.status = "in_progress")
       => \A x \in DOMAIN context_chunks' \ DOMAIN context_chunks :
            pending_tag.tool_use_id = x
              => {e[1] : e \in {y \in task_chunks' : y[2] = x}}
                   = {result'.tool_input.task_id}]_vars

\* SpecTodo: Read and TodoWrite events through both hooks, the post-tool hook
\* of an invocation carrying the event of its pre-tool hook.
TodoTools == {"Read", "TodoWrite"}

\* one file to read; a TodoWrite lists task 1 alone
TodoInputs(tool_name) ==
  {ti \in ToolInputs(tool_name) :
     /\ tool_name = "Read" => ti.file_path = 1
     /\ tool_name = "TodoWrite" => Len(ti.todos) = 1 /\ ti.todos[1].id = 1}

NextTodo ==
  \/ \E x \in ChunkIds, tn \in TodoTools :
       \E ti \in TodoInputs(tn) : PreToolUse(x, tn, ti)
  \/ \E x \in ChunkIds :
       /\ pre_active[x].ran
       /\ PostToolUse(x, pre_active[x].tool_name, pre_active[x].tool_input, TRUE)

SpecTodo == InitHistory /\ [][NextTodo]_vars

\* C23: once the post-tool hook of an event that completed a task (a TaskUpdate
\* to completed, or a TodoWrite with a completed entry) has returned, the engine
\* has run: no chunk that satisfies the eviction condition is left unmarked.
C23_CompletionEventRunsEngine ==
  (/\ result.op = "post_tool_use"
   /\ result.ok
   /\ \/ result.tool_name = "TaskUpdate" /\ result.tool_input.status = "completed"
      \/ /\ result.tool_name = "TodoWrite"
         /\ \E i \in DOMAIN result.tool_input.todos :
              result.tool_input.todos[i].status = "completed")
    => \A c \in DOMAIN context_chunks :
         run(Store, FALSE).report.reasons[c] # "all_tasks_complete_no_active_refs"

\* SpecChain: the long_chain scenario on a chain of two tasks: TaskCreate(1),
\* TaskCreate(2) with dependsOn = [1], then TaskUpdate and Read events on the
\* tasks that exist, each event through the pre-tool and then the post-tool hook.
ChainInputs(tool_name) ==
  CASE tool_name = "TaskCreate" ->
         {[Input(NULL, <<>>, t, NO_STATUS, <<>>) EXCEPT
             !.dependsOn = IF t = 1 THEN <<>> ELSE <<t - 1>>] : t \in TaskIds}
    [] tool_name = "TaskUpdate" ->
         {Input(NULL, <<>>, t, st, <<>>) : t \in TaskIds, st \in {"in_progress", "completed"}}
    [] OTHER -> {Input(1, <<>>, NULL, NO_STATUS, <<>>)}

\* ScenarioHarness.tool_call: the pre-tool hook of a fresh invocation id, then
\* the post-tool hook of the same event (whose result may hold no text).
NextChain ==
  \/ \E x \in ChunkIds, tn \in InterleaveTools :
       \E ti \in ChainInputs(tn) :
          /\ result.op # "pre_tool_use"
          /\ x = Cardinality(DOMAIN context_chunks) + 1
          /\ tn = "TaskUpdate" => ti.task_id \in DOMAIN tasks
          /\ PreToolUse(x, tn, ti)
  \/ \E x \in ChunkIds, has_text \in BOOLEAN :
       /\ result.op = "pre_tool_use"
       /\ x = pending_tag.tool_use_id
       /\ PostToolUse(x, pre_active[x].tool_name, pre_active[x].tool_input, has_text)

SpecChain == InitHistory /\ [][NextChain]_vars

\* C24: in the dependency chain driven through the hooks, once the completion
\* of chain-1 has been processed and while chain-2 (created with
\* dependsOn = [chain-1]) is not complete, every chunk owned by chain-1 is
\* preserved with reason active_dependent_task.
C24_ChainPinsUntilNextCompletes ==
  (/\ result.op = "post_tool_use"
   /\ result.tool_name = "TaskUpdate"
   /\ result.tool_input.task_id = 1
   /\ result.tool_input.status = "completed"
   /\ tasks[1].status = "completed"
   /\ 2 \in DOMAIN tasks
   /\ tasks[2].status \in {"pending", "in_progress"})
    => \A c \in DOMAIN context_chunks :
         {e[1] : e \in {y \in task_chunks : y[2] = c}} = {1}
           => /\ context_chunks[c].status # "evictable"
              /\ run(Store, FALSE).report.reasons[c] = "active_dependent_task"

\* SpecSequential: the sequential_clean scenario: each task is created, started,
\* given Read calls and completed before the next one is created, each event
\* through the pre-tool and then the post-tool hook.
SequentialInputs(tool_name) ==
  {ti \in ToolInputs(tool_name) :
     tool_name = "TaskUpdate" => ti.status \in {"in_progress", "completed"}}

NextSequential ==
  \/ \E x \in ChunkIds, tn \in InterleaveTools :
       \E ti \in SequentialInputs(tn) :
          /\ result.op # "pre_tool_use"
          /\ x = Cardinality(DOMAIN context_chunks) + 1
          /\ tn = "TaskCreate" =>
               /\ ti.task_id = Cardinality(DOMAIN tasks) + 1
               /\ \A t \in DOMAIN tasks : tasks[t].status = "completed"
          /\ tn = "TaskUpdate" =>
               /\ ti.task_id \in DOMAIN tasks
               /\ \/ ti.status = "in_progress" /\ tasks[ti.task_id].status = "pending"
                  \/ ti.status = "completed" /\ tasks[ti.task_id].status = "in_progress"
          /\ tn = "Read" => InProgress(Store) # {}
          /\ PreToolUse(x, tn, ti)
  \/ \E x \in ChunkIds, has_text \in BOOLEAN :
       /\ result.op = "pre_tool_use"
       /\ x = pending_tag.tool_use_id
       /\ PostToolUse(x, pre_active[x].tool_name, pre_active[x].tool_input, has_text)

SpecSequential == InitHistory /\ [][NextSequential]_vars

\* C25: in the sequential clean run, once the completion of the last task has
\* been processed (every task is completed), every chunk in the store,
\* including the chunks of TaskCreate and TaskUpdate invocations, is evictable.
C25_SequentialCleanAllEvictable ==
  (/\ result.op = "post_tool_use"
   /\ result.tool_name = "TaskUpdate"
   /\ result.tool_input.status = "completed"
   /\ \A t \in DOMAIN tasks : tasks[t].status = "completed")
    => \A c \in DOMAIN context_chunks : context_chunks[c].status = "evictable"

\* SpecExit: the hooks fired on any event in any store state: a post-tool hook
\* need not have been preceded by the pre-tool hook of its event.
NextExit ==
  \/ \E x \in ChunkIds, tn \in InterleaveTools :
       \E ti \in InterleaveInputs(tn) : PreToolUse(x, tn, ti)
  \/ \E x \in ChunkIds, tn \in InterleaveTools, has_text \in BOOLEAN :
       \E ti \in InterleaveInputs(tn) : PostToolUse(x, tn, ti, has_text)

SpecExit == Init /\ [][NextExit]_vars

\* C26: every hook process ends with exit code 0, whatever the event and the
\* store: no failure inside ingest, write-invalidation or the engine run ends
\* the post-tool hook with an error exit.
C26_HooksExitZero ==
  result.op = "post_tool_use" => result.ok

\* ------------------------------------------------------------- pre_compact
\* TaskRegistry.list_active: the pending and in_progress tasks
list_active(s) == {t \in DOMAIN s.tasks : is_active(s.tasks[t])}

\* the first n entries of a list (the [:n] slices of _build_guidance)
FirstN(seq, n) == SubSeq(seq, 1, IF Len(seq) < n THEN Len(seq) ELSE n)

\* CompactionAdvisor._build_guidance, by what the text lists: the reclaimable
\* tokens, the active tasks, up to 20 evictable and up to 10 preserved chunks.
\* The text is never the empty string.
_build_guidance(report, active_tasks) ==
  [empty |-> FALSE,
   reclaimable |-> report.total_evictable_tokens,
   active_tasks |-> active_tasks,
   omit |-> FirstN(report.evictable_chunks, 20),
   preserve |-> FirstN(report.preserved_chunks, 10)]

\* the empty string
NoGuidance ==
  [empty |-> TRUE, reclaimable |-> 0, active_tasks |-> {}, omit |-> <<>>, preserve |-> <<>>]

\* what can fail inside generate_hints: the engine run (before it changes the
\* store) or writing eviction_hints.json (after the run)
HintFailures == {"none", "engine", "write"}

\* CompactionAdvisor.generate_hints(update_db); ok = FALSE when it raises
generate_hints(s, update_db, failure) ==
  IF failure = "engine"
    THEN [store |-> s, ok |-> FALSE, compaction_guidance |-> NoGuidance]
    ELSE LET r == run(s, update_db)
         IN  [store |-> r.store, ok |-> failure = "none",
              compaction_guidance |-> _build_guidance(r.report, list_active(r.store))]

\* mutant: a failure of generate_hints ends the process with an error exit
pre_compact_fail_closed(s, parsed, failure) ==
  IF ~parsed
    THEN [store |-> s, additionalContext |-> NoGuidance, exit |-> 0]
    ELSE LET hints == generate_hints(s, TRUE, failure)
         IN  [store |-> hints.store,
              additionalContext |-> hints.compaction_guidance,
              exit |-> IF hints.ok THEN 0 ELSE 1]

\* pre_compact.main: the store it leaves, the additionalContext it prints and
\* its exit code, for an event that parses or not
pre_compact(s, parsed, failure) ==
  IF ~parsed
    THEN [store |-> s, additionalContext |-> NoGuidance, exit |-> 0]
    ELSE LET hints == generate_hints(s, TRUE, failure)
         IN  [store |-> hints.store,
              additionalContext |-> IF hints.ok THEN hints.compaction_guidance
                                                ELSE NoGuidance,
              exit |-> 0]

\* one pre_compact.py process
PreCompact(parsed, failure) ==
  LET out == pre_compact(Store, parsed, failure)
  IN  /\ Commit(out.store)
      /\ result' = [op |-> "pre_compact", parsed |-> parsed, failure |-> failure,
                    additionalContext |-> out.additionalContext, exit |-> out.exit]
      /\ UNCHANGED <<pending_tag, pre_active>>

\* SpecCompact: tasks, ingested Read results and the pre-compact hook.
NextCompact ==
  \/ \E id \in TaskIds : Create(id)
  \/ \E id \in TaskIds, status \in ForwardStatuses : UpdateStatus(id, status)
  \/ \E x \in ChunkIds, ti \in ReadInputs, t \in TaskIds \cup {NULL} :
       Ingest(x, "Read", ti, ShortOutput, t)
  \/ \E parsed \in BOOLEAN, failure \in HintFailures : PreCompact(parsed, failure)

SpecCompact == Init /\ [][NextCompact]_vars

LifecycleTools == {"TaskCreate", "TaskUpdate", "TodoWrite"}

NextAutoCreate ==
  \E tn \in LifecycleTools : \E ti \in ToolInputs(tn) : PreToolUse(1, tn, ti)

SpecAutoCreate == InitHistory /\ [][NextAutoCreate]_vars

\* C28: when a TaskUpdate or a TodoWrite entry names a task id that is not in
\* the store, the pre-tool hook leaves that task in the store with exactly the
\* requested status, pending if the TaskUpdate requests none.
C28_UnknownTaskAutoCreated ==
  [][result'.op = "pre_tool_use" =>
       LET ev == pre_active'[pending_tag'.tool_use_id]
           ti == ev.tool_input
           Has(t, status) == t \in DOMAIN tasks' /\ tasks'[t].status = status
       IN  /\ (ev.tool_name = "TaskUpdate" /\ ti.task_id # NULL
                 /\ ti.task_id \notin DOMAIN tasks)
                => Has(ti.task_id, IF ti.status = NO_STATUS THEN "pending" ELSE ti.status)
           /\ ev.tool_name = "TodoWrite"
                => \A i \in DOMAIN ti.todos :
                     ti.todos[i].id \notin DOMAIN tasks
                       => Has(ti.todos[i].id, ti.todos[i].status)]_vars

\* C28 witness: a TodoWrite has just created two tasks, one of them completed
\* and the other in_progress.
C28_Witness ==
  /\ result.op = "pre_tool_use"
  /\ LET ev == pre_active[pending_tag.tool_use_id]
     IN  /\ ev.tool_name = "TodoWrite"
         /\ Cardinality(ev.created) = 2
         /\ \E t \in ev.created : tasks[t].status = "completed"
         /\ \E t \in ev.created : tasks[t].status = "in_progress"

\* C29: create on an id that already exists leaves the task's status,
\* completed_at, created_at and its ownership and dependency edges unchanged:
\* a repeated TaskCreate does not reset a started or finished task to pending.
C29_CreateExistingIsNoOp ==
  [][result'.op = "pre_tool_use" =>
       LET ev == pre_active'[pending_tag'.tool_use_id]
       IN  (ev.tool_name = "TaskCreate" /\ ev.tool_input.task_id \in DOMAIN tasks)
             => /\ tasks'[ev.tool_input.task_id] = tasks[ev.tool_input.task_id]
                /\ UNCHANGED <<task_chunks, task_dependencies>>]_vars

EdgeInputs == {Input(1, <<>>, NULL, NO_STATUS, <<>>)}

\* TaskRegistry.tag_chunk(task_id, chunk_id)
TagChunk(task_id, chunk_id) ==
  /\ Commit(tag_chunk(Store, task_id, chunk_id))
  /\ result' = NoResult
  /\ UNCHANGED <<pending_tag, pre_active>>

NextEdges ==
  \/ \E id \in TaskIds : Create(id)
  \/ \E x \in ChunkIds, ti \in EdgeInputs : Ingest(x, "Read", ti, ShortOutput, NULL)
  \/ \E t \in TaskIds, c \in ChunkIds : TagChunk(t, c)
  \/ \E d \in TaskIds, p \in TaskIds : AddDependency(d, p)
  \/ \E t \in TaskIds, c \in ChunkIds, r \in EdgeTypes : AddEdge(t, c, r)
  \/ \E t \in TaskIds, c \in ChunkIds, r \in EdgeTypes : RemoveEdge(t, c, r)

SpecEdges == Init /\ [][NextEdges]_vars

\* C31: edge insertion is idempotent on the edge's key: in every reachable
\* store, a second tag_chunk(T, C), add_dependency(D, P) or add_edge(T, C, r)
\* succeeds when the first did and leaves the store of the first call, with one
\* edge of that key, while add_edge(T, C, r2) with another valid type r2 adds
\* the edge <<T, C, r2>> next to <<T, C, r>> and changes nothing else.
C31_EdgeInsertionIdempotent ==
  /\ \A t \in TaskIds, c \in ChunkIds :
       LET s1 == tag_chunk(Store, t, c)
       IN  /\ tag_chunk(s1, t, c) = s1
           /\ s1.ok => Cardinality({e \in s1.task_chunks : e[1] = t /\ e[2] = c}) = 1
  /\ \A d \in TaskIds, p \in TaskIds :
       LET s1 == add_dependency(Store, d, p)
       IN  /\ add_dependency(s1, d, p) = s1
           /\ s1.ok => Cardinality({e \in s1.task_dependencies : e[1] = d /\ e[2] = p}) = 1
  /\ \A t \in TaskIds, c \in ChunkIds, r \in REFERENCE_TYPES :
       LET s1 == add_edge(Store, t, c, r)
           Between(s) == {e \in s.reference_edges : e[1] = t /\ e[2] = c}
       IN  /\ add_edge(s1, t, c, r) = s1
           /\ s1.ok => <<t, c, r>> \in s1.reference_edges
           /\ s1.ok => \A r2 \in REFERENCE_TYPES \ {r} :
                LET s2 == add_edge(s1, t, c, r2)
                IN  /\ s2 = [s1 EXCEPT !.reference_edges = @ \cup {<<t, c, r2>>}]
                    /\ Between(s2) = Between(Store) \cup {<<t, c, r>>, <<t, c, r2>>}
                    /\ Cardinality(Between(s2)) >= 2

\* C31 witness: the store already holds an ownership edge, a dependency edge
\* and a reference edge, so each of the three insertions can be a repeat.
C31_Witness ==
  /\ \E t \in DOMAIN tasks, c \in DOMAIN context_chunks :
       /\ <<t, c>> \in task_chunks
       /\ <<t, c, "cited_in_reasoning">> \in reference_edges
       /\ tag_chunk(Store, t, c) = Store
       /\ add_edge(Store, t, c, "cited_in_reasoning") = Store
       /\ Cardinality(add_edge(Store, t, c, "builds_on").reference_edges) = 2
  /\ \E d \in DOMAIN tasks, p \in DOMAIN tasks :
       /\ <<d, p>> \in task_dependencies
       /\ add_dependency(Store, d, p) = Store

\* C32: add_edge with a reference type outside REFERENCE_TYPES fails with the
\* domain error (ValueError), whether or not its endpoints exist, and leaves
\* the reference edges unchanged; remove_edge of an edge that is not in the
\* store succeeds and leaves the store unchanged.
C32_InvalidTypeRejectedRemoveMissingSafe ==
  \A t \in TaskIds, c \in ChunkIds :
     /\ \A r \in EdgeTypes \ REFERENCE_TYPES :
          /\ ~add_edge(Store, t, c, r).ok
          /\ add_edge_error(Store, t, c, r) = "ValueError"
          /\ add_edge(Store, t, c, r).reference_edges = reference_edges
     /\ \A r \in EdgeTypes \cup REFERENCE_TYPES :
          <<t, c, r>> \notin reference_edges => remove_edge(Store, t, c, r) = Store

\* C32 witness: the store holds a reference edge between an existing task and
\* an existing chunk; an insertion of an unknown type between the same two
\* is rejected, and a removal of another edge leaves the edge in place.
C32_Witness ==
  \E e \in reference_edges :
     /\ e[1] \in DOMAIN tasks /\ e[2] \in DOMAIN context_chunks
     /\ ~add_edge(Store, e[1], e[2], "bogus").ok
     /\ add_edge(Store, e[1], e[2], "builds_on").ok
     /\ remove_edge(Store, e[1], e[2], "builds_on").reference_edges = {e}

\* C33: ingesting an invocation id that is already in the store leaves one
\* chunk row with that id (no row is added or removed), and preserves the
\* row's refetchable flag, tool name, tool input and created_at and every
\* ownership edge of the store, whatever tool name, input, output and task the
\* second ingest is given.
C33_ReingestPreservesRow ==
  \A x \in DOMAIN context_chunks, tn \in TaggerTools, out \in Outputs,
     t \in TaskIds \cup {NULL} :
     \A ti \in ToolInputs(tn) :
        LET s1 == ingest(Store, x, tn, ti, out, t)
        IN  /\ DOMAIN s1.context_chunks = DOMAIN context_chunks
            /\ Cardinality({c \in DOMAIN s1.context_chunks : c = x}) = 1
            /\ is_refetchable(s1, x) = is_refetchable(Store, x)
            /\ s1.context_chunks[x].tool_name = context_chunks[x].tool_name
            /\ s1.context_chunks[x].tool_input = context_chunks[x].tool_input
            /\ s1.context_chunks[x].created_at = context_chunks[x].created_at
            /\ task_chunks \subseteq s1.task_chunks

\* C33 witness: a chunk ingested twice, for two tasks: it is owned by both,
\* and a younger chunk shows that it kept the created_at of its first ingest.
C33_Witness ==
  \E x \in DOMAIN context_chunks, y \in DOMAIN context_chunks :
     /\ task_ids(Store, x) = {1, 2}
     /\ context_chunks[x].created_at < context_chunks[y].created_at
     /\ context_chunks[x].created_at < tasks[2].created_at

\* C34: in every reachable store every ownership edge, reference edge and
\* dependency edge has both endpoints present; tag_chunk, add_dependency and
\* add_edge with a missing endpoint are rejected and return the store
\* unchanged, and an ingest for a task that is not in the store is rejected
\* without adding an edge.
C34_EdgeEndpointsExist ==
  LET Sound(s) ==
        /\ \A e \in s.task_chunks :
             e[1] \in DOMAIN s.tasks /\ e[2] \in DOMAIN s.context_chunks
        /\ \A e \in s.reference_edges :
             e[1] \in DOMAIN s.tasks /\ e[2] \in DOMAIN s.context_chunks
        /\ \A e \in s.task_dependencies :
             e[1] \in DOMAIN s.tasks /\ e[2] \in DOMAIN s.tasks
      Rejected(s) == s = [Store EXCEPT !.ok = FALSE]
  IN  /\ Sound(Store)
      /\ \A t \in TaskIds, c \in ChunkIds :
           (t \notin DOMAIN tasks \/ c \notin DOMAIN context_chunks)
             => /\ Rejected(tag_chunk(Store, t, c))
                /\ \A r \in REFERENCE_TYPES : Rejected(add_edge(Store, t, c, r))
      /\ \A d \in TaskIds, p \in TaskIds :
           (d \notin DOMAIN tasks \/ p \notin DOMAIN tasks)
             => Rejected(add_dependency(Store, d, p))
      /\ \A x \in ChunkIds, t \in TaskIds \ DOMAIN tasks, ti \in EdgeInputs :
           LET s1 == ingest(Store, x, "Read", ti, ShortOutput, t)
           IN  ~s1.ok /\ s1.task_chunks = task_chunks /\ Sound(s1)

\* C34 witness: the store holds an edge of each kind while one task id and one
\* chunk id are still absent, so insertions with a missing endpoint exist.
C34_Witness ==
  /\ task_chunks # {} /\ reference_edges # {} /\ task_dependencies # {}
  /\ DOMAIN tasks # TaskIds
  /\ DOMAIN context_chunks # ChunkIds
  /\ ~tag_chunk(Store, 2, 1).ok
  /\ ~add_edge(Store, 1, 2, "supersedes").ok
  /\ ~add_dependency(Store, 1, 2).ok

\* SpecSessions: two host sessions on one store.  Session n works on task n
\* (which it starts and does not finish) and reads file n; each sends its
\* events through both hooks, and the events of the two sessions interleave
\* freely.
Sessions == TaskIds

SessionTools == {"Read", "TaskUpdate"}

SessionInputs(session, tool_name) ==
  {ti \in ToolInputs(tool_name) :
     /\ tool_name = "Read" => ti.file_path = session
     /\ tool_name = "TaskUpdate" => ti.task_id = session /\ ti.status = "in_progress"}

\* the session of a Read chunk, by the file it read
session_of_chunk(s, chunk_id) == s.context_chunks[chunk_id].tool_input.file_path

NextSessions ==
  \/ \E session \in Sessions, x \in ChunkIds, tn \in SessionTools :
       \E ti \in SessionInputs(session, tn) : PreToolUse(x, tn, ti)
  \/ \E x \in ChunkIds :
       /\ pre_active[x].ran
       /\ PostToolUse(x, pre_active[x].tool_name, pre_active[x].tool_input,
                      pre_active[x].tool_name = "Read")

SpecSessions == InitHistory /\ [][NextSessions]_vars

\* C35: two sessions sharing one store are independent: a chunk produced by
\* the events of one session is never owned by a task of the other session.
C35_SessionsIndependent ==
  \A e \in task_chunks : session_of_chunk(Store, e[2]) = e[1]

ChainTaskIds == 1..(MaxTasks + 1)

InitTransitive ==
  /\ tasks = [t \in ChainTaskIds |->
                [status |-> "pending", created_at |-> t, completed_at |-> NULL]]
  /\ context_chunks = <<>>
  /\ task_chunks = {}
  /\ reference_edges = {}
  /\ task_dependencies = {<<t, t - 1>> : t \in ChainTaskIds \ {1}}
  /\ now = MaxTasks + 1
  /\ pending_tag = NoTag
  /\ pre_active = <<>>
  /\ result = NoResult

NextTransitive ==
  \/ \E id \in ChainTaskIds, status \in ForwardStatuses : UpdateStatus(id, status)
  \/ \E x \in ChunkIds, ti \in ReadInputs, t \in ChainTaskIds :
       Ingest(x, "Read", ti, ShortOutput, t)
  \/ \E b \in BOOLEAN : Run(b)

SpecTransitive == InitTransitive /\ [][NextTransitive]_vars

ingest_owner(s, task_id) == IF task_id # NULL THEN task_id ELSE get_current_active(s)

ingest_persist(s, tool_use_id, tool_name, tool_input, tool_output) ==
  _persist(s, tool_use_id,
           [tool_name |-> tool_name, tool_input |-> tool_input,
            status |-> "fresh", size_tokens |-> _estimate_tokens(tool_output),
            created_at |-> s.now + 1])

IngestAroundRun(tool_use_id, tool_name, tool_input, tool_output, task_id, update_db) ==
  LET active_task_id == ingest_owner(Store, task_id)
      s1 == ingest_persist(Store, tool_use_id, tool_name, tool_input, tool_output)
      r == run(s1, update_db)
      s2 == IF active_task_id # NULL
              THEN tag_chunk(r.store, active_task_id, tool_use_id)
              ELSE r.store
  IN  /\ Commit(s2)
      /\ result' = [op |-> "ingest_around_run", tool_use_id |-> tool_use_id,
                    active_task_id |-> active_task_id, ok |-> s2.ok,
                    report |-> r.report]
      /\ UNCHANGED <<pending_tag, pre_active>>

NextRace ==
  \/ \E id \in TaskIds : Create(id)
  \/ \E id \in TaskIds, status \in ForwardStatuses : UpdateStatus(id, status)
  \/ \E x \in ChunkIds, ti \in EdgeInputs, t \in TaskIds \cup {NULL} :
       Ingest(x, "Read", ti, ShortOutput, t)
  \/ \E x \in ChunkIds, ti \in EdgeInputs, t \in TaskIds \cup {NULL} :
       IngestAroundRun(x, "Read", ti, ShortOutput, t, TRUE)
  \/ Run(TRUE)

SpecRace == Init /\ [][NextRace]_vars

\* C38: an engine run that falls between the two transactions of an ingest
\* never marks the ingested chunk evictable: when the ingest returns and the
\* owner it tagged is in_progress, the chunk is not evictable.
C38_RunBetweenIngestTransactionsKeepsChunk ==
  ( /\ result.op = "ingest_around_run"
    /\ result.ok
    /\ result.active_task_id # NULL
    /\ tasks[result.active_task_id].status = "in_progress" )
  => context_chunks[result.tool_use_id].status # "evictable"

\* SpecLostUpdate: two pre-tool hook processes handle a TaskUpdate of the same
\* task concurrently.  One carries a subject and no status: it reads the row
\* (registry.get, line 122, creating the task if it is missing), sets
\* task.subject and writes the whole row back (registry.upsert, lines 128-130).
\* The other carries a status and runs from start to end between that read and
\* that write.
get(s, task_id) == s.tasks[task_id]

TaskUpdateSubjectAroundStatus(subject_use_id, status_use_id, task_id, status) ==
  LET s1 == IF task_id \notin DOMAIN tasks THEN create(Store, task_id) ELSE Store
      task == get(s1, task_id)
      s2 == pre_lifecycle(s1, "TaskUpdate", Input(NULL, <<>>, task_id, status, <<>>))
      s3 == upsert(s2, task_id, task)
  IN  /\ Commit(s3)
      /\ pending_tag' = [tool_use_id |-> subject_use_id,
                         active_task_id |-> get_current_active(s3)]
      /\ result' = [op |-> "task_update_race", task_id |-> task_id, status |-> status,
                    decision |-> pre_decision(s3, "TaskUpdate")]
      /\ UNCHANGED pre_active

LostUpdateTools == {"TaskCreate", "TaskUpdate"}

NextLostUpdate ==
  \/ \E x \in ChunkIds, tn \in LostUpdateTools : \E ti \in ToolInputs(tn) : PreToolUse(x, tn, ti)
  \/ \E x \in ChunkIds, y \in ChunkIds, t \in TaskIds, status \in HostStatuses :
       x # y /\ TaskUpdateSubjectAroundStatus(x, y, t, status)

SpecLostUpdate == Init /\ [][NextLostUpdate]_vars

\* C39: when a TaskUpdate that changes only the subject and a TaskUpdate that
\* changes the status of the same task are handled concurrently, the status
\* change is not lost: once both handlers have finished, the task has the
\* status the second one set.
C39_StatusChangeNotLost ==
  result.op = "task_update_race" => tasks[result.task_id].status = result.status

\* SpecMonotone: tasks moving forward, Read results of one file ingested for
\* them (so that a later one supersedes an earlier one), declared dependencies,
\* reference edges and engine runs.
NextMonotone ==
  \/ \E id \in TaskIds : Create(id)
  \/ \E id \in TaskIds, status \in ForwardStatuses : UpdateStatus(id, status)
  \/ \E x \in ChunkIds, ti \in EdgeInputs, t \in TaskIds :
       Ingest(x, "Read", ti, ShortOutput, t)
  \/ \E d \in TaskIds, p \in TaskIds : AddDependency(d, p)
  \/ \E t \in TaskIds, c \in ChunkIds : AddEdge(t, c, "cited_in_reasoning")
  \/ Run(TRUE)

SpecMonotone == Init /\ [][NextMonotone]_vars

\* C40: engine classification is monotone in task completion: in every
\* reachable store, for every pending or in_progress task, every chunk in the
\* evictable list of run(update_db=false) is still in the evictable list of
\* run(update_db=false) after that one task has been set to completed, and the
\* two lists still partition the same chunks.
C40_CompletionMonotone ==
  LET ids(seq) == {seq[i] : i \in DOMAIN seq}
      before == run(Store, FALSE).report
  IN  \A t \in DOMAIN tasks :
         is_active(tasks[t]) =>
           LET after == run(update_status(Store, t, "completed"), FALSE).report
           IN  /\ ids(before.evictable_chunks) \subseteq ids(after.evictable_chunks)
               /\ ids(after.preserved_chunks) \subseteq ids(before.preserved_chunks)
               /\ ids(after.evictable_chunks) \cup ids(after.preserved_chunks)
                    = DOMAIN context_chunks

\* C40 witness: one chunk is evictable before and after, and completing the
\* in_progress task moves another chunk, kept for that task as an active
\* dependent or as an active referrer, from the preserved to the evictable list.
C40_Witness ==
  LET ids(seq) == {seq[i] : i \in DOMAIN seq}
      before == run(Store, FALSE).report
  IN  \E t \in DOMAIN tasks :
         /\ tasks[t].status = "in_progress"
         /\ LET after == run(update_status(Store, t, "completed"), FALSE).report
            IN  \E c \in ids(before.evictable_chunks), d \in ids(before.preserved_chunks) :
                   /\ before.reasons[d] \in {"active_dependent_task", "referenced_by_active_task"}
                   /\ d \in ids(after.evictable_chunks)
                   /\ c \in ids(after.evictable_chunks)

====
